---- MODULE Spec2Model ----
(***************************************************************************)
(* distshell: a session (DistShell) owns an ordered array of Host records  *)
(* and dispatches one worker goroutine per host, in batches bounded by     *)
(* maxBatch, synchronised through a buffered channel of status strings.    *)
(*                                                                         *)
(* Strings that the program concatenates or trims (host names, the         *)
(* aggregate error text, captured output) are sequences of one-character   *)
(* strings.  Commands and error values are opaque TLA+ strings.            *)
(***************************************************************************)
EXTENDS Integers, Sequences, FiniteSets, TLC

\* ------------------------------------------------------------------ bounds
\* Longest host list a session is built from.
MaxHosts == 2
\* Number of dispatch calls (Execute, ExecuteAll, GetFile) a caller issues.
MaxCalls == 2
\* Largest argument given to SetMaxBatch (the smallest is -1).
MaxBatchArg == 2
\* Number of worker goroutines launched over all the dispatch calls.
MaxWorkers == 2

\* The batch size New and SetupDistShell install.
DefaultMaxBatch == 50

\* --------------------------------------------------------------- inputs
\* The host lists of the dispatch specification: prefixes of distinct names.
HostNames == << <<"a">>, <<"b">>, <<"c">>, <<"d">> >>

HostLists == { SubSeq(HostNames, 1, n) : n \in 0..MaxHosts }

\* Names a host list can hold in the specifications of the record surface and
\* of the error scan: strings.Split also yields empty and repeated names.
Names == { <<"a">>, <<"b">>, <<>> }

RECURSIVE SeqsUpTo(_, _)
SeqsUpTo(S, n) ==
    IF n = 0 THEN { <<>> }
    ELSE LET shorter == SeqsUpTo(S, n - 1) IN
         shorter \cup { Append(q, x) : q \in shorter, x \in S }

NameLists == SeqsUpTo(Names, MaxHosts)

\* The error scan is also given a name that ends with the separator.
ScanNames == Names \cup { <<"a", ",">> }

ScanNameLists == SeqsUpTo(ScanNames, MaxHosts) \ { <<>> }

\* Identities a caller passes to AddCommand / GetHostStdout: every name that
\* can be in a session, and one that never is.
LookupNames == Names \cup { <<"z">> }

\* (command, args) pairs a caller assigns.
CmdInputs == { [cmd |-> "", args |-> <<>>], [cmd |-> "df", args |-> <<"-h">>] }

\* Bytes a remote command can print.
Outputs == { <<"3">> }

BatchArgs == -1..MaxBatchArg

\* --------------------------------------------------------------- values
NilError == "nil"
ErrNoCmd == "no available command to execute"
ErrExit == "exit status 1"

Comma == ","

\* The bytes GetHostStdout returns when no record matches.
NoOutput == <<"n", "o", " ", "o", "u", "t", "p", "u", "t">>

VARIABLES
    HOSTS,          \* DistShell.HOSTS: sequence of Host records
    monitor,        \* DistShell.monitor
    maxBatch,       \* DistShell.maxBatch
    pc,             \* where the caller's goroutine is
    op,             \* the dispatch call in progress ("Execute" or "GetFile")
    i,              \* loop index of the launch loop / of the error scan
    runningCount,   \* local of Execute / GetFile
    TotalCmdsRun,   \* local of Execute / GetFile
    c,              \* drain loop counter
    failedHosts,    \* local string of the error scan
    chans,          \* chans[k]: the cmdStatus channel made by dispatch call k
    workers,        \* the goroutines launched so far
    drained,        \* status strings received by the current call, in order
    batches,        \* sizes of the batches the current call has launched, in order
    ret,            \* the value a call has just returned to the caller (NoRet otherwise)
    hist,           \* per dispatch call: HOSTS when it began and when it returned
    sshFound,       \* exec.LookPath("ssh") succeeds
    scpFound        \* exec.LookPath("scp") succeeds

sessionVars == <<HOSTS, monitor, maxBatch>>
ctlVars == <<pc, op, i, runningCount, TotalCmdsRun, c, failedHosts>>
envVars == <<sshFound, scpFound>>
vars == <<HOSTS, monitor, maxBatch, pc, op, i, runningCount, TotalCmdsRun, c,
          failedHosts, chans, workers, drained, batches, ret, hist, sshFound, scpFound>>

\* ------------------------------------------------------- pure functions
\* type Host struct, zero value but for Name.
Host(name) ==
    [Name |-> name, Stdout |-> <<>>, cmd |-> "", args |-> <<>>, CmdError |-> NilError]

buildHost(hList) == [k \in 1..Len(hList) |-> Host(hList[k])]

\* Index of the first record named h, 0 when there is none: the
\* `for i := range ds.HOSTS { if ds.HOSTS[i].Name == h` loops.
FirstIndex(H, h) ==
    IF \E k \in 1..Len(H) : H[k].Name = h
    THEN CHOOSE k \in 1..Len(H) :
            /\ H[k].Name = h
            /\ \A j \in 1..(k - 1) : H[j].Name # h
    ELSE 0

\* A trim that drops nothing.
TrimRightNone(s, cutset) == s

\* strings.TrimRight(s, cutset): drops every trailing character of cutset.
RECURSIVE TrimRight(_, _)
TrimRight(s, cutset) ==
    IF s = <<>> THEN s
    ELSE IF s[Len(s)] \in cutset THEN TrimRight(SubSeq(s, 1, Len(s) - 1), cutset)
    ELSE s

\* A lookup that answers an unknown name with empty output.
StdoutOfNoSentinel(H, h) ==
    IF FirstIndex(H, h) # 0 THEN H[FirstIndex(H, h)].Stdout ELSE <<>>

\* What GetHostStdout(h) returns on host array H.
StdoutOf(H, h) ==
    IF FirstIndex(H, h) # 0 THEN H[FirstIndex(H, h)].Stdout ELSE NoOutput

\* An assignment that reaches every record named h.
AddCommandHostsEvery(H, h, command, args) ==
    [k \in 1..Len(H) |->
        IF H[k].Name = h THEN [H[k] EXCEPT !.cmd = command, !.args = args] ELSE H[k]]

\* The host array after AddCommand(h, command, args).
AddCommandHosts(H, h, command, args) ==
    LET k == FirstIndex(H, h) IN
    IF k = 0 THEN H
    ELSE [H EXCEPT ![k].cmd = command, ![k].args = args]

\* The host array after ExecuteAll's loop of AddCommand over the first n names.
RECURSIVE AddCommandAll(_, _, _, _)
AddCommandAll(H, n, command, args) ==
    IF n = 0 THEN H
    ELSE AddCommandHosts(AddCommandAll(H, n - 1, command, args), H[n].Name, command, args)

\* A batch test without its second disjunct.
BatchFullNoLast(rc, tc, mb, th) == rc >= mb

\* `runningCount >= ds.maxBatch || TotalCmdsRun >= TotalHosts`
BatchFull(rc, tc, mb, th) == rc >= mb \/ tc >= th

\* The value a dispatch call returns from the scanned string.
AggregateError(fh) ==
    IF fh # <<>>
    THEN [fn |-> op, arg |-> <<>>, ok |-> FALSE, text |-> TrimRight(fh, {Comma})]
    ELSE [fn |-> op, arg |-> <<>>, ok |-> TRUE, text |-> <<>>]

\* One iteration of the `check for errors` loop.
ScanHost(fh, h) == IF h.CmdError # NilError THEN fh \o h.Name \o <<Comma>> ELSE fh

\* -------------------------------------------------------------- workers
SendPcs == {"nocmd_send", "fail_send", "ok_send", "scp_fail_send", "scp_ok_send"}

NewWorker(k, h, kind) ==
    [call |-> k, h |-> h, pc |-> IF kind = "Execute" THEN "start" ELSE "scp_exec",
     out |-> <<>>, sent |-> 0, nocmd |-> FALSE, res |-> "none"]

\* The status string a worker at a send statement sends.
Msg(w) ==
    [kind |-> CASE w.pc = "nocmd_send" -> "nocmd"
                [] w.pc \in {"fail_send", "scp_fail_send"} -> "error"
                [] OTHER -> "ok",
     name |-> HOSTS[w.h].Name, call |-> w.call, h |-> w.h]

\* The worker once its send statement has completed.
AfterSend(w) ==
    [w EXCEPT !.sent = @ + 1,
              !.pc = CASE w.pc = "nocmd_send" -> "nocmd_err"
                       [] w.pc = "fail_send" -> "fail_stdout"
                       [] OTHER -> "done"]

\* No call has just returned a value.
NoRet == [fn |-> "none", arg |-> <<>>, ok |-> TRUE, text |-> <<>>]

Alive == pc \notin {"exited", "panic"}

\* A work item is terminal once its goroutine has returned.
Live(w) == w.pc # "done"

\* The work item has failed: no command, or the transport ended with an error.
Failed(w) == w.nocmd \/ w.res = "err"

\* The work item has invoked the external transport (ssh or scp).
Invoked(w) == w.res # "none"

\* ----------------------------------------------------------------- Init
\* The host array after New and one AddCommand per host (ci[k] to host k).
Assigned(H, ci) == [k \in 1..Len(H) |-> [H[k] EXCEPT !.cmd = ci[k].cmd, !.args = ci[k].args]]

Init ==
    /\ \E hList \in HostLists :
          \E ci \in [1..Len(hList) -> CmdInputs] :
             HOSTS = Assigned(buildHost(hList), ci)
    /\ monitor = TRUE
    /\ maxBatch = DefaultMaxBatch
    /\ pc = "idle"
    /\ op = "none"
    /\ i = 0
    /\ runningCount = 0
    /\ TotalCmdsRun = 0
    /\ c = 0
    /\ failedHosts = <<>>
    /\ chans = <<>>
    /\ workers = {}
    /\ drained = <<>>
    /\ batches = <<>>
    /\ ret = NoRet
    /\ hist = <<>>
    /\ sshFound \in BOOLEAN
    /\ scpFound \in BOOLEAN

\* ------------------------------------------------- configuration calls
EnableMonitoring ==
    /\ pc = "idle"
    /\ monitor' = TRUE
    /\ UNCHANGED <<HOSTS, maxBatch, ctlVars, chans, workers, drained, batches, hist, envVars>>
    /\ ret' = NoRet

DisableMonitoring ==
    /\ pc = "idle"
    /\ monitor' = FALSE
    /\ UNCHANGED <<HOSTS, maxBatch, ctlVars, chans, workers, drained, batches, hist, envVars>>
    /\ ret' = NoRet

SetMaxBatch(n) ==
    /\ pc = "idle"
    /\ maxBatch' = n
    /\ UNCHANGED <<HOSTS, monitor, ctlVars, chans, workers, drained, batches, hist, envVars>>
    /\ ret' = NoRet

AddCommand(h, command, args) ==
    /\ pc = "idle"
    /\ HOSTS' = AddCommandHosts(HOSTS, h, command, args)
    /\ ret' = [fn |-> "AddCommand", arg |-> h, ok |-> FirstIndex(HOSTS, h) # 0,
               text |-> <<>>]
    /\ UNCHANGED <<monitor, maxBatch, ctlVars, chans, workers, drained, batches, hist, envVars>>

GetHostStdout(h) ==
    /\ pc = "idle"
    /\ ret' = [fn |-> "GetHostStdout", arg |-> h, ok |-> TRUE, text |-> StdoutOf(HOSTS, h)]
    /\ UNCHANGED <<sessionVars, ctlVars, chans, workers, drained, batches, hist, envVars>>

\* ------------------------------------------------------ dispatch calls
\* The call returns: the error scan found fh.
Return(fh, H) ==
    /\ pc' = "idle"
    /\ ret' = AggregateError(fh)
    /\ hist' = [hist EXCEPT ![Len(hist)].end = H, ![Len(hist)].returned = TRUE,
                            ![Len(hist)].ok = (fh = <<>>),
                            ![Len(hist)].text = TrimRight(fh, {Comma})]
    /\ i' = 0
    /\ failedHosts' = <<>>

\* Entry of Execute / GetFile on host array H: make the channel, look scp
\* up (GetFile), enter the launch loop.
Begin(kind, H) ==
    /\ pc = "idle"
    /\ Len(chans) < MaxCalls
    /\ Cardinality(workers) + Len(H) <= MaxWorkers
    /\ HOSTS' = H
    /\ UNCHANGED <<monitor, maxBatch, workers, envVars>>
    /\ IF maxBatch < 0
       THEN \* make(chan string, n) panics for n < 0
            /\ pc' = "panic"
            /\ ret' = NoRet
            /\ UNCHANGED <<op, i, runningCount, TotalCmdsRun, c, failedHosts,
                           chans, drained, batches, hist>>
       ELSE /\ chans' = Append(chans, [cap |-> maxBatch, buf |-> <<>>])
            /\ op' = kind
            /\ runningCount' = 0
            /\ TotalCmdsRun' = 0
            /\ c' = 0
            /\ drained' = <<>>
            /\ batches' = <<>>
            /\ IF kind = "GetFile" /\ ~scpFound
               THEN \* os.Exit(1)
                    /\ pc' = "exited"
                    /\ ret' = NoRet
                    /\ UNCHANGED <<i, failedHosts, hist>>
               ELSE /\ hist' = Append(hist, [op |-> kind, start |-> H, end |-> <<>>,
                                             returned |-> Len(H) = 0, ok |-> TRUE,
                                             text |-> <<>>])
                    /\ IF Len(H) = 0
                       THEN /\ pc' = "idle"
                            /\ ret' = [fn |-> kind, arg |-> <<>>, ok |-> TRUE, text |-> <<>>]
                            /\ i' = 0
                            /\ failedHosts' = <<>>
                       ELSE /\ pc' = "launch"
                            /\ i' = 1
                            /\ ret' = NoRet
                            /\ UNCHANGED failedHosts

Execute == Begin("Execute", HOSTS)

ExecuteAll(cmd, args) == Begin("Execute", AddCommandAll(HOSTS, Len(HOSTS), cmd, args))

GetFile == Begin("GetFile", HOSTS)

\* End of one iteration of the launch loop: the next host, or the error scan.
NextIteration ==
    IF i < Len(HOSTS)
    THEN pc' = "launch" /\ i' = i + 1 /\ UNCHANGED failedHosts
    ELSE pc' = "scan" /\ i' = 1 /\ failedHosts' = <<>>

\* `go runCMD(&ds.HOSTS[i], cmdStatus)` (or the scp closure), the two
\* increments and the batch test.
Launch ==
    /\ pc = "launch"
    /\ workers' = workers \cup {NewWorker(Len(chans), i, op)}
    /\ TotalCmdsRun' = TotalCmdsRun + 1
    /\ IF BatchFull(runningCount + 1, TotalCmdsRun + 1, maxBatch, Len(HOSTS))
       THEN /\ pc' = "drain"
            /\ runningCount' = runningCount + 1
            /\ c' = 0
            /\ batches' = Append(batches, runningCount + 1)
            /\ UNCHANGED <<i, failedHosts>>
       ELSE /\ runningCount' = runningCount + 1
            /\ NextIteration
            /\ UNCHANGED <<c, batches>>
    /\ UNCHANGED <<sessionVars, op, chans, drained, hist, envVars>>
    /\ ret' = NoRet

\* A controller that gives the launch loop up at the first failure status.
ReceivedStopsOnError(m) ==
    /\ drained' = Append(drained, m)
    /\ ret' = NoRet
    /\ IF m.kind # "ok"
       THEN /\ c' = 0
            /\ runningCount' = 0
            /\ pc' = "scan" /\ i' = 1 /\ failedHosts' = <<>>
       ELSE IF c + 1 < runningCount
       THEN /\ c' = c + 1
            /\ UNCHANGED <<pc, i, runningCount, failedHosts>>
       ELSE /\ c' = 0
            /\ runningCount' = 0
            /\ NextIteration
    /\ UNCHANGED <<sessionVars, op, TotalCmdsRun, batches, hist, envVars>>

\* A barrier that waits for one string more than its batch launched.
ReceivedOneMore(m) ==
    /\ drained' = Append(drained, m)
    /\ ret' = NoRet
    /\ IF c + 1 < runningCount + 1
       THEN /\ c' = c + 1
            /\ UNCHANGED <<pc, i, runningCount, failedHosts>>
       ELSE /\ c' = 0
            /\ runningCount' = 0
            /\ NextIteration
    /\ UNCHANGED <<sessionVars, op, TotalCmdsRun, batches, hist, envVars>>

\* A barrier that opens at the first string it receives.
ReceivedFirstOnly(m) ==
    /\ drained' = Append(drained, m)
    /\ ret' = NoRet
    /\ c' = 0
    /\ runningCount' = 0
    /\ NextIteration
    /\ UNCHANGED <<sessionVars, op, TotalCmdsRun, batches, hist, envVars>>

\* The controller once `s := <-cmdStatus` has delivered m.
Received(m) ==
    /\ drained' = Append(drained, m)
    /\ ret' = NoRet
    /\ IF c + 1 < runningCount
       THEN /\ c' = c + 1
            /\ UNCHANGED <<pc, i, runningCount, failedHosts>>
       ELSE /\ c' = 0
            /\ runningCount' = 0
            /\ NextIteration
    /\ UNCHANGED <<sessionVars, op, TotalCmdsRun, batches, hist, envVars>>

\* `s := <-cmdStatus` takes the oldest buffered string.
DrainBuffered ==
    /\ pc = "drain"
    /\ chans[Len(chans)].buf # <<>>
    /\ chans' = [chans EXCEPT ![Len(chans)].buf = Tail(@)]
    /\ Received(Head(chans[Len(chans)].buf))
    /\ UNCHANGED workers

\* On an unbuffered channel (maxBatch = 0) the receive meets a blocked sender.
DrainRendezvous(w) ==
    /\ pc = "drain"
    /\ chans[Len(chans)].cap = 0
    /\ w.call = Len(chans)
    /\ w.pc \in SendPcs
    /\ workers' = (workers \ {w}) \cup {AfterSend(w)}
    /\ Received(Msg(w))
    /\ UNCHANGED chans

\* One iteration of the `check for errors` loop; after the last one the
\* trailing commas are trimmed and the call returns.
Scan ==
    /\ pc = "scan"
    /\ LET fh == ScanHost(failedHosts, HOSTS[i]) IN
       IF i < Len(HOSTS)
       THEN /\ failedHosts' = fh
            /\ i' = i + 1
            /\ ret' = NoRet
            /\ UNCHANGED <<pc, hist>>
       ELSE Return(fh, HOSTS)
    /\ UNCHANGED <<sessionVars, op, runningCount, TotalCmdsRun, c, chans, workers,
                   drained, batches, envVars>>

\* ------------------------------------------------------- worker steps
Step(w, w2) == workers' = (workers \ {w}) \cup {w2}

\* `ch <- ...`: completes when the channel's buffer has room.
WSend(w) ==
    /\ Alive
    /\ w.pc \in SendPcs
    /\ Len(chans[w.call].buf) < chans[w.call].cap
    /\ chans' = [chans EXCEPT ![w.call].buf = Append(@, Msg(w))]
    /\ Step(w, AfterSend(w))
    /\ UNCHANGED <<sessionVars, ctlVars, drained, batches, hist, envVars>>
    /\ ret' = NoRet

\* runCMD: `if h.cmd == ""`
WStart(w) ==
    /\ Alive
    /\ w.pc = "start"
    /\ Step(w, IF HOSTS[w.h].cmd = ""
               THEN [w EXCEPT !.pc = "nocmd_send", !.nocmd = TRUE]
               ELSE [w EXCEPT !.pc = "exec"])
    /\ UNCHANGED <<sessionVars, ctlVars, chans, drained, batches, hist, envVars>>
    /\ ret' = NoRet

\* runCMD: `h.CmdError = errors.New("no available command to execute")`;
\* control then falls through to the ssh lookup.
WNoCmdErr(w) ==
    /\ Alive
    /\ w.pc = "nocmd_err"
    /\ HOSTS' = [HOSTS EXCEPT ![w.h].CmdError = ErrNoCmd]
    /\ Step(w, [w EXCEPT !.pc = "exec"])
    /\ UNCHANGED <<monitor, maxBatch, ctlVars, chans, drained, batches, hist, envVars>>
    /\ ret' = NoRet

\* A worker that reports a failed ssh lookup as the host's failure.
WExecNoExit(w) ==
    /\ Alive
    /\ w.pc = "exec"
    /\ \E good \in BOOLEAN, out \in Outputs :
          Step(w, [w EXCEPT !.pc = IF good /\ sshFound THEN "ok_stdout" ELSE "fail_send",
                            !.out = out,
                            !.res = IF good /\ sshFound THEN "ok" ELSE "err"])
    /\ UNCHANGED <<sessionVars, ctlVars, chans, drained, batches, hist, envVars>>
    /\ ret' = NoRet

\* runCMD: exec.LookPath("ssh"), os.Exit(1) when it fails, else the ssh
\* command runs and ends with some output and exit status.
WExec(w) ==
    /\ Alive
    /\ w.pc = "exec"
    /\ IF ~sshFound
       THEN /\ pc' = "exited"
            /\ UNCHANGED <<workers, op, i, runningCount, TotalCmdsRun, c, failedHosts>>
       ELSE /\ \E good \in BOOLEAN, out \in Outputs :
                Step(w, [w EXCEPT !.pc = IF good THEN "ok_stdout" ELSE "fail_send",
                                  !.out = out,
                                  !.res = IF good THEN "ok" ELSE "err"])
            /\ UNCHANGED ctlVars
    /\ UNCHANGED <<sessionVars, chans, drained, batches, hist, envVars>>
    /\ ret' = NoRet

\* runCMD, err != nil: `h.Stdout = out` after the send.
WFailStdout(w) ==
    /\ Alive
    /\ w.pc = "fail_stdout"
    /\ HOSTS' = [HOSTS EXCEPT ![w.h].Stdout = w.out]
    /\ Step(w, [w EXCEPT !.pc = "fail_err"])
    /\ UNCHANGED <<monitor, maxBatch, ctlVars, chans, drained, batches, hist, envVars>>
    /\ ret' = NoRet

\* runCMD, err != nil: `h.CmdError = err`, return.
WFailErr(w) ==
    /\ Alive
    /\ w.pc = "fail_err"
    /\ HOSTS' = [HOSTS EXCEPT ![w.h].CmdError = ErrExit]
    /\ Step(w, [w EXCEPT !.pc = "done", !.out = <<>>])
    /\ UNCHANGED <<monitor, maxBatch, ctlVars, chans, drained, batches, hist, envVars>>
    /\ ret' = NoRet

\* runCMD, err == nil: `h.Stdout = out` before the send.
WOkStdout(w) ==
    /\ Alive
    /\ w.pc = "ok_stdout"
    /\ HOSTS' = [HOSTS EXCEPT ![w.h].Stdout = w.out]
    /\ Step(w, [w EXCEPT !.pc = "ok_send", !.out = <<>>])
    /\ UNCHANGED <<monitor, maxBatch, ctlVars, chans, drained, batches, hist, envVars>>
    /\ ret' = NoRet

\* GetFile's closure: kitutils.RunCMD(SCP, ...) ends with or without an error.
GExec(w) ==
    /\ Alive
    /\ w.pc = "scp_exec"
    /\ \E good \in BOOLEAN :
          Step(w, [w EXCEPT !.pc = IF good THEN "scp_ok_send" ELSE "scp_err",
                            !.res = IF good THEN "ok" ELSE "err"])
    /\ UNCHANGED <<sessionVars, ctlVars, chans, drained, batches, hist, envVars>>
    /\ ret' = NoRet

\* GetFile's closure: `hostname.CmdError = cmderr` before the send.
GErr(w) ==
    /\ Alive
    /\ w.pc = "scp_err"
    /\ HOSTS' = [HOSTS EXCEPT ![w.h].CmdError = ErrExit]
    /\ Step(w, [w EXCEPT !.pc = "scp_fail_send"])
    /\ UNCHANGED <<monitor, maxBatch, ctlVars, chans, drained, batches, hist, envVars>>
    /\ ret' = NoRet

Worker(w) ==
    \/ WStart(w)
    \/ WSend(w)
    \/ WNoCmdErr(w)
    \/ WExec(w)
    \/ WFailStdout(w)
    \/ WFailErr(w)
    \/ WOkStdout(w)
    \/ GExec(w)
    \/ GErr(w)

\* The dispatcher: the dispatch calls, the controller's steps, the workers.
Next ==
    \/ Execute
    \/ \E ci \in CmdInputs : ExecuteAll(ci.cmd, ci.args)
    \/ GetFile
    \/ Launch
    \/ DrainBuffered
    \/ \E w \in workers : DrainRendezvous(w)
    \/ Scan
    \/ \E w \in workers : Worker(w)
    \/ \E n \in BatchArgs : SetMaxBatch(n)

Spec == Init /\ [][Next]_vars

\* The steps of the goroutine that called Execute / GetFile.
Controller ==
    \/ Launch
    \/ DrainBuffered
    \/ \E w \in workers : DrainRendezvous(w)
    \/ Scan

\* The Go scheduler runs every goroutine that can run, and every ssh / scp
\* invocation ends: the controller and the workers keep taking their steps.
FairSpec ==
    /\ Spec
    /\ WF_vars(Controller)
    /\ WF_vars(\E w \in workers : Worker(w))
\* =========================================================================
\* Properties
\* =========================================================================
\* The work items launched by the dispatch call in progress (or, between
\* calls, by the last one).
CallWorkers == { w \in workers : w.call = Len(chans) }

\* A dispatch call has just handed its result to the caller.
JustReturned == ret.fn \in {"Execute", "GetFile"}

InCall == pc \in {"launch", "drain", "scan"}

\* strings.Split(s, ","): the comma-separated items of s.
RECURSIVE Split(_)
Split(s) ==
    IF \E k \in 1..Len(s) : s[k] = Comma
    THEN LET k == CHOOSE j \in 1..Len(s) :
                     s[j] = Comma /\ \A m \in 1..(j - 1) : s[m] # Comma
         IN <<SubSeq(s, 1, k - 1)>> \o Split(SubSeq(s, k + 1, Len(s)))
    ELSE <<s>>

\* The result r is an error whose text lists the identity name.
Names_(r, name) == ~r.ok /\ \E k \in DOMAIN Split(r.text) : Split(r.text)[k] = name

\* C1: during a dispatch call with maxBatch >= 1, the work items the call has
\* launched and that are not yet terminal number at most maxBatch.
InFlightAtMostMaxBatch ==
    (InCall /\ maxBatch >= 1) =>
        Cardinality({ w \in CallWorkers : Live(w) }) <= maxBatch

\* C2: when Execute returns, every host whose work item has failed in that
\* call is named by the returned error (so the result is nil only if no work
\* item failed).
ExecuteNamesEveryFailure ==
    ret.fn = "Execute" =>
        \A w \in CallWorkers : Failed(w) => Names_(ret, HOSTS[w.h].Name)

\* C3: when a dispatch call returns, every work item it launched is terminal.
SettledAtReturn ==
    JustReturned => \A w \in CallWorkers : ~Live(w)

\* C4: when a dispatch call returns, a host whose work item succeeded in it
\* has no CmdError and is not named by the returned error.
SuccessClearsError ==
    JustReturned =>
        \A w \in CallWorkers :
            (~Live(w) /\ ~Failed(w)) =>
                /\ HOSTS[w.h].CmdError = NilError
                /\ ~Names_(ret, HOSTS[w.h].Name)

\* C5: a work item that found no command never invokes the transport and
\* sends one status string only.
NoCommandIsLocal ==
    \A w \in workers : w.nocmd => (~Invoked(w) /\ w.sent <= 1)

\* ---- the text of the aggregate error (checked under SpecScan)
\* The names of the first n hosts that hold an error, in session order.
RECURSIVE FailedNames(_, _)
FailedNames(H, n) ==
    IF n = 0 THEN <<>>
    ELSE IF H[n].CmdError # NilError THEN Append(FailedNames(H, n - 1), H[n].Name)
    ELSE FailedNames(H, n - 1)

\* The strings of q joined by single commas.
RECURSIVE JoinComma(_)
JoinComma(q) ==
    IF q = <<>> THEN <<>>
    ELSE IF Len(q) = 1 THEN q[1]
    ELSE q[1] \o <<Comma>> \o JoinComma(Tail(q))

DistinctNames(H) == \A j, k \in 1..Len(H) : j # k => H[j].Name # H[k].Name

\* Every identity is non-empty and holds no comma.
PlainNames(H) ==
    \A k \in 1..Len(H) :
        H[k].Name # <<>> /\ \A m \in 1..Len(H[k].Name) : H[k].Name[m] # Comma

\* The returned text is the failed identities joined by single commas: each
\* once, no other, no comma at either end.
JoinedText ==
    LET F == FailedNames(HOSTS, Len(HOSTS)) IN
    /\ ~ret.ok
    /\ ret.text = JoinComma(F)
    /\ Split(ret.text) = F
    /\ ret.text # <<>> => (ret.text[1] # Comma /\ ret.text[Len(ret.text)] # Comma)

NoSendBlockedAfterDrain ==
    \A w \in workers :
        (/\ chans[w.call].cap >= Len(HOSTS)
         /\ w.pc \in SendPcs
         /\ Len(chans[w.call].buf) >= Len(HOSTS))
            => (w.call = Len(chans) /\ pc \in {"launch", "drain"})

NoCommandIdempotent ==
    (/\ ret.fn = "Execute"
     /\ Len(hist) >= 2
     /\ hist[Len(hist) - 1].op = "Execute"
     /\ hist[Len(hist)].op = "Execute") =>
        LET first == hist[Len(hist) - 1]
            second == hist[Len(hist)]
        IN \A k \in 1..Len(HOSTS) :
              (first.start[k].cmd = "" /\ second.start[k].cmd = "") =>
                 /\ first.end[k].CmdError = second.end[k].CmdError
                 /\ first.end[k].Stdout = first.start[k].Stdout
                 /\ second.end[k].Stdout = second.start[k].Stdout

\* ---- a missing transport executable
\* C9, as claimed: a dispatch call on at least one host never returns a
\* result when its transport executable cannot be located.
MissingTransportNeverReturns ==
    (JustReturned /\ Len(HOSTS) >= 1) =>
        /\ ret.fn = "Execute" => sshFound
        /\ ret.fn = "GetFile" => scpFound

\* C9, amended: GetFile never returns a result when scp cannot be located,
\* and Execute never returns one when ssh cannot be located and at least one
\* host had a command assigned when the call began.
MissingTransportNeverReturnsWithCommand ==
    JustReturned =>
        /\ ret.fn = "GetFile" => scpFound
        /\ (ret.fn = "Execute"
              /\ \E k \in 1..Len(HOSTS) : hist[Len(hist)].start[k].cmd # "")
               => sshFound

\* C9 witness: the process has exited inside an Execute call because a host
\* with a command looked ssh up and did not find it.
ExitedOnMissingSsh ==
    /\ pc = "exited"
    /\ op = "Execute"
    /\ ~sshFound
    /\ \E w \in CallWorkers : w.pc = "exec" /\ ~w.nocmd

\* ---- GetHostStdout (checked under SpecSession)
\* Host k has never been dispatched.
NeverRan(k) == ~\E w \in workers : w.h = k

\* C10, as claimed: GetHostStdout returns the bytes "no output" when no
\* record matches and when the matching host has never run.
StdoutSentinelWhenUnknownOrNeverRan ==
    (ret.fn = "GetHostStdout"
       /\ (FirstIndex(HOSTS, ret.arg) = 0 \/ NeverRan(FirstIndex(HOSTS, ret.arg))))
        => ret.text = NoOutput

\* C10, amended: GetHostStdout returns the bytes "no output" when no record
\* matches, and the empty Stdout of the matching record when that host has
\* never run; it signals no error and changes nothing of the session.
StdoutSentinelOnlyWhenUnknown ==
    [][ret'.fn = "GetHostStdout" =>
          /\ ret'.ok
          /\ FirstIndex(HOSTS, ret'.arg) = 0 => ret'.text = NoOutput
          /\ (FirstIndex(HOSTS, ret'.arg) # 0 /\ NeverRan(FirstIndex(HOSTS, ret'.arg)))
                => (ret'.text = <<>> /\ ret'.text # NoOutput)
          /\ UNCHANGED <<sessionVars, ctlVars, chans, workers, drained, batches, hist,
                         envVars>>]_vars

\* C10 witness: GetHostStdout has answered for a matching host that never ran.
StdoutOfNeverRanHost ==
    /\ ret.fn = "GetHostStdout"
    /\ FirstIndex(HOSTS, ret.arg) # 0
    /\ NeverRan(FirstIndex(HOSTS, ret.arg))
    /\ ret.text = <<>>

\* ---- the batch size
\* C12: in every reachable session state, after New and any sequence of
\* SetMaxBatch calls, maxBatch >= 1.
MaxBatchAtLeastOne == maxBatch >= 1

\* ---- status strings
\* C13: each launched work item sends exactly one status string: never more
\* than one, and exactly one once its goroutine has returned.
OneStatusPerWorkItem ==
    \A w \in workers : w.sent <= 1 /\ (~Live(w) => w.sent = 1)

\* ---- one writer per record
\* C14: over the dispatch calls of a session, no two work items that target
\* the same Host Record are non-terminal at the same moment.
OneLiveWorkItemPerRecord ==
    \A w1, w2 \in workers :
        (w1 # w2 /\ w1.h = w2.h) => ~(Live(w1) /\ Live(w2))

\* ---- batch order
\* The number of work items in the first k batches of the current call.
RECURSIVE BatchEnd(_)
BatchEnd(k) == IF k = 0 THEN 0 ELSE BatchEnd(k - 1) + batches[k]

\* The batch of the current call that host h was launched in: a closed one,
\* or the one being filled.
BatchOf(h) ==
    IF \E k \in 1..Len(batches) : h <= BatchEnd(k)
    THEN CHOOSE k \in 1..Len(batches) : h <= BatchEnd(k) /\ BatchEnd(k - 1) < h
    ELSE Len(batches) + 1

\* C15: in a dispatch call (maxBatch >= 1), while a work item of a later
\* batch exists, every work item of an earlier batch is terminal.
BatchesStrictlyOrdered ==
    maxBatch >= 1 =>
        \A w1, w2 \in CallWorkers :
            BatchOf(w1.h) < BatchOf(w2.h) => ~Live(w1)

\* ---- message accounting
\* Every work item of the current call emits one status string at most and,
\* if it gets past the ssh lookup, exactly one: a GetFile call, or an Execute
\* call in which every host has a command.
OneMessageCall ==
    op = "GetFile" \/ \A k \in 1..Len(HOSTS) : HOSTS[k].cmd # ""

\* C16: in a dispatch call whose work items each emit exactly one message,
\* every closed barrier has drained as many messages as its batch launched
\* (the open one has drained c of them), the j-th drained message is the
\* message of a work item of the batch the j-th launch belongs to, no work
\* item is drained twice, and the queue is empty when the call returns.
DrainedMatchesLaunched ==
    ((InCall \/ JustReturned) /\ OneMessageCall) =>
        /\ pc = "drain" =>
              Len(drained) = BatchEnd(Len(batches) - 1) + c
        /\ pc # "drain" => Len(drained) = BatchEnd(Len(batches))
        /\ pc \in {"scan", "idle"} => Len(drained) = Len(HOSTS)
        /\ \A j \in 1..Len(drained) :
              /\ drained[j].call = Len(chans)
              /\ BatchOf(drained[j].h) = BatchOf(j)
              /\ \A m \in 1..Len(drained) : m # j => drained[m].h # drained[j].h
        /\ JustReturned => chans[Len(chans)].buf = <<>>

\* C16 witness: a call on two hosts, each with one message to send, has
\* returned after two batches of one.
TwoBatchesDrained ==
    /\ JustReturned /\ OneMessageCall
    /\ batches = <<1, 1>>
    /\ Len(drained) = 2
    /\ drained[1].h = 1 /\ drained[2].h = 2

\* ---- every host is launched
\* The work items of the current call are those of the first TotalCmdsRun
\* hosts, one each, and the launch loop stands at the next host.
LaunchedInOrder ==
    /\ Cardinality(CallWorkers) = TotalCmdsRun
    /\ \A k \in 1..TotalCmdsRun : \E w \in CallWorkers : w.h = k
    /\ pc = "launch" => i = TotalCmdsRun + 1
    /\ pc = "drain" => i = TotalCmdsRun
    /\ JustReturned => TotalCmdsRun = Len(HOSTS)

\* The process is dead inside a dispatch call with hosts not yet launched.
DiedBeforeLaunchingAll ==
    /\ pc = "exited"
    /\ Len(chans) >= 1
    /\ TotalCmdsRun < Len(HOSTS)

\* C17, as claimed: in every dispatch call every host has its work item
\* launched exactly once, in session order, whatever happens to the others.
EveryHostLaunchedOnce ==
    /\ (InCall \/ JustReturned) => LaunchedInOrder
    /\ ~DiedBeforeLaunchingAll

\* C17, amended: the work items of a call are launched once each in session
\* order and a call that returns has launched every host, whatever the
\* outcome of the others; the launches of a call are cut short only by the
\* exit of the process on a transport executable that cannot be located,
\* never by a work item's failure.
EveryHostLaunchedOnceUnlessFatal ==
    /\ (InCall \/ JustReturned) => LaunchedInOrder
    /\ pc = "exited" => (~sshFound \/ (~scpFound /\ op = "GetFile"))
    /\ (pc = "exited" /\ sshFound) => (TotalCmdsRun = 0 /\ CallWorkers = {})
    /\ pc = "panic" => maxBatch < 0

\* C17 witness: with one host per batch, the first host's work item failed
\* and the second host was launched all the same; the call has returned.
SecondLaunchedAfterFailure ==
    /\ JustReturned
    /\ sshFound
    /\ batches = <<1, 1>>
    /\ drained[1].kind # "ok" /\ drained[1].h = 1
    /\ \E w \in CallWorkers : w.h = 2

\* ---- maxBatch = 1
\* C18: with maxBatch = 1 a dispatch call runs one single-item batch per
\* host: every batch has one work item, at most one work item of the call is
\* non-terminal at any time, and the j-th drained status string is the one of
\* host j; a call that returns has run as many batches as there are hosts.
SequentialSingleBatches ==
    (maxBatch = 1 /\ (InCall \/ JustReturned)) =>
        /\ \A k \in 1..Len(batches) : batches[k] = 1
        /\ Cardinality({ w \in CallWorkers : Live(w) }) <= 1
        /\ \A j \in 1..Len(drained) : drained[j].h = j
        /\ JustReturned => (Len(batches) = Len(HOSTS) /\ Len(drained) = Len(HOSTS))

\* ---- queue capacity
\* C19: in a call made with maxBatch >= 1 no worker stands at a send
\* statement with the queue of its call full.
NoSendOnFullQueue ==
    \A w \in workers :
        (chans[w.call].cap >= 1 /\ w.pc \in SendPcs) =>
            Len(chans[w.call].buf) < chans[w.call].cap

\* ---- termination (checked under FairSpec)
\* C20, as claimed: every dispatch call in progress eventually returns.
EveryCallReturns == InCall ~> JustReturned

\* C20, amended: a dispatch call in progress eventually returns when ssh can
\* be located, and otherwise eventually returns or ends with the exit of the
\* process; the controller never stays at a drain barrier.
EveryCallReturnsOrExits ==
    InCall ~> (JustReturned \/ (pc = "exited" /\ ~sshFound))

\* C20 witness: a call made with maxBatch = 0 on two hosts has returned.
UnbufferedCallReturned ==
    /\ JustReturned
    /\ chans[Len(chans)].cap = 0
    /\ Len(HOSTS) = 2
    /\ Len(drained) = 2

\* ---- AddCommand (checked under SpecSession)
\* What an AddCommand(h, command, args) step must have done.
AddCommandEffect(h, command, args) ==
    /\ Len(HOSTS') = Len(HOSTS)
    /\ \A k \in 1..Len(HOSTS) :
          /\ HOSTS'[k].Name = HOSTS[k].Name
          /\ HOSTS'[k].Stdout = HOSTS[k].Stdout
          /\ HOSTS'[k].CmdError = HOSTS[k].CmdError
    /\ IF \E k \in 1..Len(HOSTS) : HOSTS[k].Name = h
       THEN /\ ret'.ok
            /\ \E k \in 1..Len(HOSTS) :
                  /\ HOSTS[k].Name = h
                  /\ HOSTS'[k].cmd = command /\ HOSTS'[k].args = args
                  /\ \A j \in 1..Len(HOSTS) : j # k => HOSTS'[j] = HOSTS[j]
       ELSE /\ ~ret'.ok
            /\ HOSTS' = HOSTS
    /\ UNCHANGED <<monitor, maxBatch, ctlVars, chans, workers, drained, batches, hist,
                   envVars>>

\* C11: AddCommand on a matching identity sets that record's command and
\* arguments, returns true and leaves every other record and every Stdout and
\* CmdError unchanged; on an identity that matches no record it returns false
\* and leaves the session unchanged.
AddCommandSetsOneRecord ==
    [][\A h \in LookupNames, ci \in CmdInputs :
          AddCommand(h, ci.cmd, ci.args) => AddCommandEffect(h, ci.cmd, ci.args)]_vars

\* C11 witness: AddCommand has returned true on a session of two hosts that
\* have run, and only one of them holds the new (empty) command.
AddCommandChangedOne ==
    /\ ret.fn = "AddCommand" /\ ret.ok
    /\ Len(HOSTS) = 2
    /\ workers # {}
    /\ HOSTS[1].cmd # HOSTS[2].cmd

\* =========================================================================
\* The record surface: AddCommand, GetHostStdout and the monitoring switches
\* are functions of the session alone.  InitSession draws the session a
\* caller can hold between dispatch calls: never dispatched (any names), or
\* built from distinct names, given a command per host and dispatched once by
\* Execute with ssh present and every goroutine returned.
\* =========================================================================
RecordStates == [Stdout : {<<>>} \cup Outputs, CmdError : {NilError, ErrExit}]

Fresh == [Stdout |-> <<>>, CmdError |-> NilError]

SessionHosts(names, st) ==
    [k \in 1..Len(names) |->
        [Host(names[k]) EXCEPT !.Stdout = st[k].Stdout, !.CmdError = st[k].CmdError]]

\* Every host given the command "df -h".
WithCommand(H) == [k \in 1..Len(H) |-> [H[k] EXCEPT !.cmd = "df", !.args = <<"-h">>]]

\* The `check for errors` loop over the first n hosts.
RECURSIVE ScanAll(_, _)
ScanAll(H, n) == IF n = 0 THEN <<>> ELSE ScanHost(ScanAll(H, n - 1), H[n])

\* The goroutine of host k of call 1, returned.
DoneWorker(k, st) ==
    [call |-> 1, h |-> k, pc |-> "done", out |-> <<>>, sent |-> 1, nocmd |-> FALSE,
     res |-> IF st.CmdError = NilError THEN "ok" ELSE "err"]

DoneMsg(H, k) ==
    [kind |-> IF H[k].CmdError = NilError THEN "ok" ELSE "error",
     name |-> H[k].Name, call |-> 1, h |-> k]

InitSession ==
    /\ \E names \in NameLists, ran \in BOOLEAN :
          \E st \in [1..Len(names) -> RecordStates] :
             /\ ~ran => \A k \in 1..Len(names) : st[k] = Fresh
             /\ ran => \A j, k \in 1..Len(names) : j # k => names[j] # names[k]
             /\ HOSTS = IF ran THEN WithCommand(SessionHosts(names, st))
                        ELSE SessionHosts(names, st)
             /\ workers = IF ran THEN {DoneWorker(k, st[k]) : k \in 1..Len(names)} ELSE {}
             /\ chans = IF ran THEN <<[cap |-> DefaultMaxBatch, buf |-> <<>>]>> ELSE <<>>
             /\ drained = IF ran THEN [k \in 1..Len(names) |-> DoneMsg(HOSTS, k)] ELSE <<>>
             /\ batches = IF ran /\ names # <<>> THEN <<Len(names)>> ELSE <<>>
             /\ op = IF ran THEN "Execute" ELSE "none"
             /\ TotalCmdsRun = IF ran THEN Len(names) ELSE 0
             /\ hist = IF ran
                       THEN <<[op |-> "Execute", start |-> WithCommand(buildHost(names)),
                               end |-> HOSTS,
                               returned |-> TRUE,
                               ok |-> ScanAll(HOSTS, Len(HOSTS)) = <<>>,
                               text |-> TrimRight(ScanAll(HOSTS, Len(HOSTS)), {Comma})]>>
                       ELSE <<>>
    /\ monitor = TRUE
    /\ maxBatch = DefaultMaxBatch
    /\ pc = "idle"
    /\ i = 0
    /\ runningCount = 0
    /\ c = 0
    /\ failedHosts = <<>>
    /\ ret = NoRet
    /\ sshFound = TRUE
    /\ scpFound = TRUE

NextSession ==
    \/ EnableMonitoring
    \/ DisableMonitoring
    \/ \E h \in LookupNames, ci \in CmdInputs : AddCommand(h, ci.cmd, ci.args)
    \/ \E h \in LookupNames : GetHostStdout(h)

SpecSession == InitSession /\ [][NextSession]_vars

\* =========================================================================
\* The error scan: the text of the aggregate error is a function of the host
\* names and of which records hold an error.  InitScan draws a GetFile call
\* on a new session (default maxBatch: one batch) at the entry of its scan,
\* every goroutine returned; Execute's scan is the same loop.
\* =========================================================================
InitScan ==
    /\ \E names \in ScanNameLists :
          \E st \in [1..Len(names) -> [Stdout : {<<>>}, CmdError : {NilError, ErrExit}]] :
             /\ HOSTS = SessionHosts(names, st)
             /\ workers = {DoneWorker(k, st[k]) : k \in 1..Len(names)}
             /\ drained = [k \in 1..Len(names) |-> DoneMsg(HOSTS, k)]
             /\ batches = <<Len(names)>>
             /\ op = "GetFile"
             /\ TotalCmdsRun = Len(names)
             /\ hist = <<[op |-> "GetFile", start |-> buildHost(names), end |-> <<>>,
                          returned |-> FALSE, ok |-> TRUE, text |-> <<>>]>>
    /\ chans = <<[cap |-> DefaultMaxBatch, buf |-> <<>>]>>
    /\ monitor = TRUE
    /\ maxBatch = DefaultMaxBatch
    /\ pc = "scan"
    /\ i = 1
    /\ runningCount = 0
    /\ c = 0
    /\ failedHosts = <<>>
    /\ ret = NoRet
    /\ sshFound = TRUE
    /\ scpFound = TRUE

NextScan == Scan

SpecScan == InitScan /\ [][NextScan]_vars
====
